---- MODULE Spec2Model ----
(***************************************************************************)
(* Control-flow flattening (lib/Transforms/Obfuscate/Flattening.cpp).      *)
(*                                                                         *)
(* A Function is an ordered list of Blocks; a Block is a list of           *)
(* Instructions and one Terminator.  flatten() is modelled step by step    *)
(* (one action per loop iteration or straight-line section), fixStack()    *)
(* one action per iteration of its do/while loop.  The original and the    *)
(* flattened Function are then executed by the same interpreter on the     *)
(* same inputs and their observable behaviour is compared.                 *)
(***************************************************************************)
EXTENDS Integers, Sequences, FiniteSets, TLC

\* ------------------------------------------------------------------ bounds
MaxBlocks == 3      \* Blocks of an input Function: 1..MaxBlocks
ValMod    == 3      \* run-time values are 0..ValMod-1
MaxTape   == 3      \* answers of the external oracle supplied to one run
MaxTrace  == 4      \* observable events after which a run is cut off

Val == 0 .. (ValMod - 1)

\* --------------------------------------------------------- IR: operands
Cst(n) == [t |-> "c", n |-> n]
Arg(n) == [t |-> "arg", n |-> n]
Reg(n) == [t |-> "v", n |-> n]

\* ----------------------------------------------------- IR: instructions
\* op: "op" (a[1] + k mod ValMod), "phi" (a[i] when arriving from inc[i]),
\* "emit" (externally visible call printing a[1]), "oracle" (external call
\* returning the next answer), "alloca", "load" (a[1] address),
\* "store" (a[1] value, a[2] address), "select" (a[1] ? a[2] : a[3]).
Inst(id, op, a, inc, k) == [id |-> id, op |-> op, a |-> a, inc |-> inc, k |-> k]

\* Terminators: "ret" (a[1] value), "br" (succ[1]), "condbr" (a[1] ? succ[1]
\* : succ[2]), "invoke" (succ normal, unwind), "switch" (a[1] condition,
\* succ[1] default; case k has value a[k] and destination succ[k], k >= 2),
\* "none" (erased).
Term(op, a, succ) == [op |-> op, a |-> a, succ |-> succ]
NoTerm == Term("none", <<>>, <<>>)

Block(insts, term) == [insts |-> insts, term |-> term]

Max(S) == CHOOSE x \in S : \A y \in S : y <= x
Range(s) == {s[i] : i \in 1 .. Len(s)}

\* ------------------------------------------------------ input Functions
\* A Function is [order |-> sequence of Block ids in layout order,
\*                blk   |-> Block id -> Block].  The entry Block is order[1].
\* Input Functions are well-formed LLVM IR: the entry Block has no
\* predecessor, a PHI has one incoming value per predecessor, every use is
\* dominated by its definition.

Profiles == {"bare", "const", "pred", "dom"}

\* Terminator shapes of a Block of an n-Block Function (targets 2..n).
Shapes(n) ==
    {Term("ret", <<>>, <<>>)}
    \cup {Term("br", <<>>, <<t>>) : t \in 2 .. n}
    \cup {Term("condbr", <<>>, <<p[1], p[2]>>) :
              p \in {q \in (2 .. n) \X (2 .. n) : q[1] # q[2]}}
    \cup (IF n >= 3 THEN {Term("invoke", <<>>, <<2, 3>>)} ELSE {})

Preds(sh, b) == {q \in DOMAIN sh : b \in Range(sh[q].succ)}

RECURSIVE ReachAvoid(_, _, _, _)
ReachAvoid(sh, seen, avoid, fuel) ==
    LET nxt == seen \cup {t \in DOMAIN sh :
                   t # avoid /\ \E q \in seen : t \in Range(sh[q].succ)} IN
    IF fuel = 0 \/ nxt = seen THEN seen
    ELSE ReachAvoid(sh, nxt, avoid, fuel - 1)

\* The Blocks reachable from the entry without passing through avoid.
ReachWithout(sh, avoid) ==
    IF avoid = 1 THEN {} ELSE ReachAvoid(sh, {1}, avoid, Len(sh))

\* A Block that strictly dominates b (the highest-numbered one).
DomOf(sh, b) ==
    IF b \notin ReachWithout(sh, 0) THEN 1
    ELSE Max({d \in DOMAIN sh \ {b} : b \notin ReachWithout(sh, d)})

PhiId(b)    == 10 * b + 1
XId(b)      == 10 * b + 2
EmitId(b)   == 10 * b + 3
OracleId(b) == 10 * b + 4
YId(b)      == 10 * b + 5

SetToSeq(S) ==
    LET RECURSIVE Go(_)
        Go(T) == IF T = {} THEN <<>>
                 ELSE LET m == CHOOSE x \in T : \A y \in T : x <= y
                      IN <<m>> \o Go(T \ {m})
    IN Go(S)

HasPhi(sh, prof, b) == prof # "bare" /\ Preds(sh, b) # {}

PhiOf(sh, prof, b) ==
    LET ps == SetToSeq(Preds(sh, b))
        val(q) == CASE prof = "const" -> Cst(q % ValMod)
                    [] prof = "pred"  -> Reg(XId(q))
                    [] OTHER          -> IF q % 2 = 1 THEN Reg(XId(1))
                                         ELSE Reg(YId(1))
    IN Inst(PhiId(b), "phi", [i \in 1 .. Len(ps) |-> val(ps[i])], ps, 0)

BodyOf(sh, prof, b) ==
    LET phi  == IF HasPhi(sh, prof, b) THEN <<PhiOf(sh, prof, b)>> ELSE <<>>
        src  == IF HasPhi(sh, prof, b) THEN Reg(PhiId(b))
                ELSE IF prof = "dom" /\ b # 1 THEN Reg(XId(1)) ELSE Arg(0)
        x    == <<Inst(XId(b), "op", <<src>>, <<>>, 1)>>
        y    == IF prof = "dom" /\ b = 1
                THEN <<Inst(YId(b), "op", <<Arg(0)>>, <<>>, 2)>> ELSE <<>>
        d    == DomOf(sh, b)
        seen == IF prof = "pred" /\ b # 1
                THEN (IF HasPhi(sh, prof, d) THEN Reg(PhiId(d)) ELSE Reg(XId(d)))
                ELSE Reg(XId(b))
        emit == <<Inst(EmitId(b), "emit", <<seen>>, <<>>, 0)>>
        orc  == IF sh[b].op = "condbr"
                THEN <<Inst(OracleId(b), "oracle", <<>>, <<>>, 0)>> ELSE <<>>
    IN CASE prof = "bare" /\ b = 1 -> <<>>
         [] prof = "bare" /\ b # 1 ->
                <<Inst(EmitId(b), "emit", <<Cst(b % ValMod)>>, <<>>, 0)>> \o orc
         [] OTHER -> phi \o x \o y \o emit \o orc

TermOf(sh, prof, b) ==
    CASE sh[b].op = "ret" ->
            Term("ret", <<IF prof = "bare" THEN Cst(b % ValMod)
                          ELSE Reg(XId(b))>>, <<>>)
      [] sh[b].op = "condbr" ->
            Term("condbr", <<IF prof = "bare" /\ b = 1 THEN Arg(0)
                             ELSE Reg(OracleId(b))>>, sh[b].succ)
      [] OTHER -> sh[b]

BuildFunction(sh, prof) ==
    [order |-> [i \in 1 .. Len(sh) |-> i],
     blk   |-> [b \in 1 .. Len(sh) |->
                   Block(BodyOf(sh, prof, b), TermOf(sh, prof, b))]]

\* Two four-Block Functions: the conditional diamond (the entry branches to
\* 2 or 3, both jump to 4, which returns) and a loop (1 -> 2, 2 branches to its
\* body 3 or to the exit 4, 3 jumps back to 2).
Diamond ==
    <<Term("condbr", <<>>, <<2, 3>>), Term("br", <<>>, <<4>>),
      Term("br", <<>>, <<4>>), Term("ret", <<>>, <<>>)>>

Loop ==
    <<Term("br", <<>>, <<2>>), Term("condbr", <<>>, <<3, 4>>),
      Term("br", <<>>, <<2>>), Term("ret", <<>>, <<>>)>>

Inputs ==
    {BuildFunction(sh, prof) :
        sh \in UNION {[1 .. n -> Shapes(n)] : n \in 1 .. MaxBlocks}
                \cup {Diamond, Loop},
        prof \in Profiles}

\* ------------------------------------------------------------ IR queries
Null == [t |-> "null", n |-> 0]

getNumSuccessors(term) == Len(term.succ)

\* The instruction at position i of Block b; position Len(insts)+1 is the
\* terminator (which has no result: id 0).
Size(F, b) == Len(F.blk[b].insts) + (IF F.blk[b].term.op = "none" THEN 0 ELSE 1)

Positions(F) ==
    UNION {{<<b, i>> : i \in 1 .. Len(F.blk[b].insts) + 1} : b \in DOMAIN F.blk}

IsTermPos(F, p) == p[2] = Len(F.blk[p[1]].insts) + 1

OperandsAt(F, p) ==
    IF IsTermPos(F, p) THEN F.blk[p[1]].term.a ELSE F.blk[p[1]].insts[p[2]].a

OpAt(F, p) ==
    IF IsTermPos(F, p) THEN F.blk[p[1]].term.op ELSE F.blk[p[1]].insts[p[2]].op

\* The positions of the users of value v.
UsesOf(F, v) == {p \in Positions(F) : Reg(v) \in Range(OperandsAt(F, p))}

\* The position of the instruction defining v.
PosOf(F, v) ==
    CHOOSE p \in Positions(F) : ~IsTermPos(F, p) /\ F.blk[p[1]].insts[p[2]].id = v

getParent(F, v) == PosOf(F, v)[1]

\* Lexicographically least position of a set.
FirstPos(S) ==
    CHOOSE p \in S : \A q \in S : p[1] < q[1] \/ (p[1] = q[1] /\ p[2] <= q[2])

InsertAt(s, i, x) == SubSeq(s, 1, i - 1) \o <<x>> \o SubSeq(s, i, Len(s))
RemoveAt(s, i) == SubSeq(s, 1, i - 1) \o SubSeq(s, i + 1, Len(s))
Subst(a, old, new) == [i \in 1 .. Len(a) |-> IF a[i] = old THEN new ELSE a[i]]

IndexOf(s, x) == CHOOSE i \in 1 .. Len(s) : s[i] = x

\* ------------------------------------------------------------- the state
VARIABLES
    F0,         \* the Function as passed to flatten (never changes)
    F,          \* the Function being rewritten in place
    pc,         \* position in flatten: "save", "size", "prep", "disp",
                \* "cases", "rewrite", "fix", "done", "crash"
    origBB,     \* std::vector<BasicBlock *> origBB
    bi,         \* index of the running loop (Function or origBB iterator)
    result,     \* flatten's return value: "true", "false"; "none" until it returns
    switchVar,  \* id of the State Variable's alloca (0: not created)
    load,       \* id of the load in loopEntry (0: not created)
    tmpBB,      \* Block split off the entry ("first"), 0 if none
    nextId,     \* next fresh instruction id
    scans,      \* what each scan of fixStack collected: <<#tmpPhi, #tmpReg>>
    reload,     \* PHI id -> id of the load that replaced it
    run         \* the last execution of F0 and F on the same input

vars == <<F0, F, pc, origBB, bi, result, switchVar, load, tmpBB, nextId,
          scans, reload, run>>

FirstNewId == 10 * (Len(F0.order) + 1)

loopEntry == Len(F0.order) + 2
FirstBB   == Len(F0.order) + 1
NoRun     == [kind |-> "none"]

Init ==
    /\ F0 \in Inputs
    /\ F = F0
    /\ pc = "save"
    /\ origBB = <<>>
    /\ bi = 1
    /\ result = "none"
    /\ switchVar = 0
    /\ load = 0
    /\ tmpBB = 0
    /\ nextId = FirstNewId
    /\ scans = <<>>
    /\ reload = <<>>
    /\ run = NoRun

\* ------------------------------------------------- flatten: lines 117-131
\* One iteration of "Save all original BB": push the Block, return false on
\* an invoke terminator.
SaveBlock ==
    /\ pc = "save"
    /\ bi <= Len(F.order)
    /\ origBB' = Append(origBB, F.order[bi])
    /\ IF F.blk[F.order[bi]].term.op = "invoke"
       THEN /\ result' = "false"
            /\ pc' = "done"
            /\ bi' = bi
       ELSE /\ result' = result
            /\ pc' = "save"
            /\ bi' = bi + 1
    /\ UNCHANGED <<F0, F, switchVar, load, tmpBB, nextId, scans, reload, run>>

\* Variant of CheckSize: only an empty Function is "nothing to flatten".
CheckSize_Strict ==
    /\ pc = "save"
    /\ bi > Len(F.order)
    /\ IF Len(origBB) < 1
       THEN result' = "false" /\ pc' = "done"
       ELSE result' = result /\ pc' = "prep"
    /\ UNCHANGED <<F0, F, origBB, bi, switchVar, load, tmpBB, nextId, scans,
                   reload, run>>

\* Loop exit and "Nothing to flatten".
CheckSize ==
    /\ pc = "save"
    /\ bi > Len(F.order)
    /\ IF Len(origBB) <= 1
       THEN result' = "false" /\ pc' = "done"
       ELSE result' = result /\ pc' = "prep"
    /\ UNCHANGED <<F0, F, origBB, bi, switchVar, load, tmpBB, nextId, scans,
                   reload, run>>

\* ------------------------------------------------- flatten: lines 133-157
\* BasicBlock::splitBasicBlock(i): the instructions from position i on move
\* to a new Block placed after b; b gets a branch to it; PHIs of the moved
\* terminator's successors now name the new Block.
splitBasicBlock(Fn, b, i, new) ==
    LET old   == Fn.blk[b]
        moved == Block(SubSeq(old.insts, i, Len(old.insts)), old.term)
        kept  == Block(SubSeq(old.insts, 1, i - 1), Term("br", <<>>, <<new>>))
        fixPhi(blkid, blk) ==
            IF blkid \in Range(old.term.succ)
            THEN [blk EXCEPT !.insts =
                    [j \in 1 .. Len(blk.insts) |->
                        IF blk.insts[j].op = "phi"
                        THEN [blk.insts[j] EXCEPT !.inc = Subst(@, b, new)]
                        ELSE blk.insts[j]]]
            ELSE blk
        at    == IndexOf(Fn.order, b)
    IN [order |-> InsertAt(Fn.order, at + 1, new),
        blk   |-> [x \in DOMAIN Fn.blk \cup {new} |->
                      IF x = new THEN moved
                      ELSE IF x = b THEN kept
                      ELSE fixPhi(x, Fn.blk[x])]]

\* "Remove first BB" and "If main begin with an if".
EntryPrep ==
    /\ pc = "prep"
    /\ LET insert == F.order[1]
           term   == F.blk[insert].term
           \* i = insert->end(); --i; if (insert->size() > 1) --i;
           i      == IF Size(F, insert) > 1 THEN Size(F, insert) - 1
                     ELSE Size(F, insert)
       IN IF term.op = "condbr" \/ getNumSuccessors(term) > 1
          THEN /\ F' = splitBasicBlock(F, insert, i, FirstBB)
               /\ tmpBB' = FirstBB
               /\ origBB' = <<FirstBB>> \o Tail(origBB)
          ELSE /\ F' = F
               /\ tmpBB' = tmpBB
               /\ origBB' = Tail(origBB)
    /\ pc' = "disp"
    /\ UNCHANGED <<F0, bi, result, switchVar, load, nextId, scans, reload, run>>

\* ------------------------------------------------- flatten: lines 159-189
\* Erase the entry's terminator, create switchVar and its initial store,
\* create loopEntry with the load and the switch, branch to it.
Dispatcher ==
    /\ pc = "disp"
    /\ LET insert == F.order[1]
           alloca == Inst(nextId, "alloca", <<>>, <<>>, 0)
           store0 == Inst(nextId + 1, "store", <<Cst(0), Reg(nextId)>>, <<>>, 0)
           ld     == Inst(nextId + 2, "load", <<Reg(nextId)>>, <<>>, 0)
           entry  == Block(F.blk[insert].insts \o <<alloca, store0>>,
                           Term("br", <<>>, <<loopEntry>>))
           \* SwitchInst::Create(.., loopEntry, 0, loopEntry); setCondition(load)
           disp   == Block(<<ld>>, Term("switch", <<Reg(nextId + 2)>>, <<loopEntry>>))
       IN /\ F' = [order |-> <<insert, loopEntry>> \o Tail(F.order),
                   blk   |-> [x \in DOMAIN F.blk \cup {loopEntry} |->
                                 IF x = loopEntry THEN disp
                                 ELSE IF x = insert THEN entry
                                 ELSE F.blk[x]]]
          /\ switchVar' = nextId
          /\ load' = nextId + 2
          /\ nextId' = nextId + 3
    /\ pc' = "cases"
    /\ bi' = 1
    /\ UNCHANGED <<F0, origBB, result, tmpBB, scans, reload, run>>

\* ------------------------------------------------- flatten: lines 195-209
getNumCases(Fn) == Len(Fn.blk[loopEntry].term.succ) - 1

\* BasicBlock::moveAfter
moveAfter(order, b, after) ==
    LET rest == SelectSeq(order, LAMBDA x : x # b)
    IN InsertAt(rest, IndexOf(rest, after) + 1, b)

\* Variant of addCase: every case gets the value 0.
addCase_StaleIndex(Fn, i) ==
    [order |-> moveAfter(Fn.order, i, loopEntry),
     blk   |-> [Fn.blk EXCEPT ![loopEntry].term.succ = Append(@, i),
                              ![loopEntry].term.a = Append(@, Cst(0))]]

\* i->moveAfter(loopEntry); switchI->addCase(getNumCases(), i)
addCase(Fn, i) ==
    LET numCase == Cst(getNumCases(Fn))
    IN [order |-> moveAfter(Fn.order, i, loopEntry),
        blk   |-> [Fn.blk EXCEPT ![loopEntry].term.succ = Append(@, i),
                                 ![loopEntry].term.a = Append(@, numCase)]]

\* One iteration of "Put all BB in the switch".
AddCase ==
    /\ pc = "cases"
    /\ bi <= Len(origBB)
    /\ F' = addCase(F, origBB[bi])
    /\ bi' = bi + 1
    /\ UNCHANGED <<F0, pc, origBB, result, switchVar, load, tmpBB, nextId,
                   scans, reload, run>>

CasesDone ==
    /\ pc = "cases"
    /\ bi > Len(origBB)
    /\ pc' = "rewrite"
    /\ bi' = 1
    /\ UNCHANGED <<F0, F, origBB, result, switchVar, load, tmpBB, nextId,
                   scans, reload, run>>

\* ------------------------------------------------- flatten: lines 211-279
\* Variant of findCaseDest: the case value is off by one.
findCaseDest_OffByOne(Fn, BB) ==
    LET sw == Fn.blk[loopEntry].term
        cs == {k \in 2 .. Len(sw.succ) : sw.succ[k] = BB}
    IN IF BB = sw.succ[1] \/ Cardinality(cs) # 1 THEN Null
       ELSE Cst(sw.a[CHOOSE k \in cs : TRUE].n + 1)

\* SwitchInst::findCaseDest: the case value of the only case leading to BB;
\* null if BB is the default destination or not the target of exactly one case.
findCaseDest(Fn, BB) ==
    LET sw == Fn.blk[loopEntry].term
        cs == {k \in 2 .. Len(sw.succ) : sw.succ[k] = BB}
    IN IF BB = sw.succ[1] \/ Cardinality(cs) # 1 THEN Null
       ELSE sw.a[CHOOSE k \in cs : TRUE]

\* "If it's a non-conditional jump" (lines 222-242): [F, nid, ok]; ok is
\* false when a store of a null case value is built.
rewriteJump(Fn, i, nid) ==
    LET term    == Fn.blk[i].term
        ptr     == Fn.blk[loopEntry].insts[1].a[1]    \* load->getPointerOperand()
        numCase == findCaseDest(Fn, term.succ[1])
        st      == Inst(nid, "store", <<numCase, ptr>>, <<>>, 0)
    IN [F   |-> [Fn EXCEPT !.blk[i] =
                   Block(Append(@.insts, st), Term("br", <<>>, <<loopEntry>>))],
        nid |-> nid + 1,
        ok  |-> numCase # Null]

\* Variant of rewriteBranch: the select's case values exchanged.
rewriteBranch_Swapped(Fn, i, nid) ==
    LET term == Fn.blk[i].term
        ptr  == Fn.blk[loopEntry].insts[1].a[1]
        numCaseTrue  == findCaseDest(Fn, term.succ[1])
        numCaseFalse == findCaseDest(Fn, term.succ[2])
        sel == Inst(nid, "select", <<term.a[1], numCaseFalse, numCaseTrue>>, <<>>, 0)
        st  == Inst(nid + 1, "store", <<Reg(nid), ptr>>, <<>>, 0)
    IN [F   |-> [Fn EXCEPT !.blk[i] =
                   Block(@.insts \o <<sel, st>>, Term("br", <<>>, <<loopEntry>>))],
        nid |-> nid + 2,
        ok  |-> Null \notin {numCaseTrue, numCaseFalse}]

\* "If it's a conditional jump" (lines 244-278).
rewriteBranch(Fn, i, nid) ==
    LET term == Fn.blk[i].term
        ptr  == Fn.blk[loopEntry].insts[1].a[1]
        numCaseTrue  == findCaseDest(Fn, term.succ[1])
        numCaseFalse == findCaseDest(Fn, term.succ[2])
        sel == Inst(nid, "select", <<term.a[1], numCaseTrue, numCaseFalse>>, <<>>, 0)
        st  == Inst(nid + 1, "store", <<Reg(nid), ptr>>, <<>>, 0)
    IN [F   |-> [Fn EXCEPT !.blk[i] =
                   Block(@.insts \o <<sel, st>>, Term("br", <<>>, <<loopEntry>>))],
        nid |-> nid + 2,
        ok  |-> Null \notin {numCaseTrue, numCaseFalse}]

\* Variant of rewriteTerminator: no arm for two successors.
rewriteTerminator_NoCond(Fn, i, nid) ==
    IF getNumSuccessors(Fn.blk[i].term) = 1 THEN rewriteJump(Fn, i, nid)
    ELSE [F |-> Fn, nid |-> nid, ok |-> TRUE]

\* The body of one iteration of "Recalculate switchVar" for Block i.
rewriteTerminator(Fn, i, nid) ==
    CASE getNumSuccessors(Fn.blk[i].term) = 1 -> rewriteJump(Fn, i, nid)
      [] getNumSuccessors(Fn.blk[i].term) = 2 -> rewriteBranch(Fn, i, nid)
      \* "Ret BB" (and any terminator the loop has no arm for)
      [] OTHER -> [F |-> Fn, nid |-> nid, ok |-> TRUE]

\* One iteration of "Recalculate switchVar".
Rewrite ==
    /\ pc = "rewrite"
    /\ bi <= Len(origBB)
    /\ LET r == rewriteTerminator(F, origBB[bi], nextId)
       IN /\ F' = r.F
          /\ nextId' = r.nid
          /\ pc' = IF r.ok THEN pc ELSE "crash"
    /\ bi' = bi + 1
    /\ UNCHANGED <<F0, origBB, result, switchVar, load, tmpBB, scans, reload, run>>

RewriteDone ==
    /\ pc = "rewrite"
    /\ bi > Len(origBB)
    /\ pc' = "fix"
    /\ UNCHANGED <<F0, F, origBB, bi, result, switchVar, load, tmpBB, nextId,
                   scans, reload, run>>

\* --------------------------------------------------- valueEscapes: 56-66
valueEscapes(Fn, v) ==
    LET BB == getParent(Fn, v)
    IN \E p \in UsesOf(Fn, v) : p[1] # BB \/ OpAt(Fn, p) = "phi"

\* Instruction::isUsedOutsideOfBlock: a PHI use counts in its incoming Block.
isUsedOutsideOfBlock(Fn, v, BB) ==
    \E p \in UsesOf(Fn, v) :
        IF OpAt(Fn, p) = "phi"
        THEN LET phi == Fn.blk[p[1]].insts[p[2]]
             IN \E j \in 1 .. Len(phi.a) : phi.a[j] = Reg(v) /\ phi.inc[j] # BB
        ELSE p[1] # BB

\* ------------------------------------------ fixStack: the scan, lines 75-93
\* The instructions of the Function in layout order.
AllInsts(Fn) ==
    LET RECURSIVE Go(_)
        Go(k) == IF k > Len(Fn.order) THEN <<>>
                 ELSE Fn.blk[Fn.order[k]].insts \o Go(k + 1)
    IN Go(1)

ScanPhi(Fn) ==
    LET all == SelectSeq(AllInsts(Fn), LAMBDA j : j.op = "phi")
    IN [k \in 1 .. Len(all) |-> all[k].id]

ScanReg(Fn) ==
    LET bbEntry == Fn.order[1]
        pick(j) == /\ j.op # "phi"
                   /\ ~(j.op = "alloca" /\ getParent(Fn, j.id) = bbEntry)
                   /\ (valueEscapes(Fn, j.id)
                       \/ isUsedOutsideOfBlock(Fn, j.id, getParent(Fn, j.id)))
        all == SelectSeq(AllInsts(Fn), pick)
    IN [k \in 1 .. Len(all) |-> all[k].id]

\* ------------------------- llvm::DemoteRegToStack (called at lines 94-96)
\* A rewriting state is [F, nid (next fresh id), reload].
AppendInst(Fn, b, inst) == [Fn EXCEPT !.blk[b].insts = Append(@, inst)]

EraseInst(Fn, v) ==
    LET p == PosOf(Fn, v)
    IN [Fn EXCEPT !.blk[p[1]].insts = RemoveAt(@, p[2])]

\* First position after index i of Block b that is not a PHI.
AfterPhis(Fn, b, i) ==
    LET n == Len(Fn.blk[b].insts)
    IN CHOOSE j \in (i + 1) .. (n + 1) :
          /\ (j <= n => Fn.blk[b].insts[j].op # "phi")
          /\ \A k \in (i + 1) .. (j - 1) : Fn.blk[b].insts[k].op = "phi"

\* "Change all of the users of the instruction to read from the stack slot":
\* a load right before each user; for a PHI user, one load per incoming
\* Block, before that Block's terminator.
RECURSIVE RewriteUsers(_, _, _)
RewriteUsers(S, v, slot) ==
    LET Fn == S.F
        us == UsesOf(Fn, v)
    IN IF us = {} THEN S
       ELSE
         LET p == FirstPos(us)
             b == p[1]
         IN IF OpAt(Fn, p) = "phi"
            THEN LET phi == Fn.blk[b].insts[p[2]]
                     qs  == SetToSeq({phi.inc[j] : j \in {k \in 1 .. Len(phi.a) :
                                                          phi.a[k] = Reg(v)}})
                     ldOf(q) == S.nid + IndexOf(qs, q) - 1
                     newPhi == [phi EXCEPT !.a =
                                  [j \in 1 .. Len(phi.a) |->
                                      IF phi.a[j] = Reg(v)
                                      THEN Reg(ldOf(phi.inc[j])) ELSE phi.a[j]]]
                     F1 == [Fn EXCEPT !.blk[b].insts[p[2]] = newPhi]
                     F2 == [F1 EXCEPT !.blk =
                              [x \in DOMAIN F1.blk |->
                                 IF x \in Range(qs)
                                 THEN [F1.blk[x] EXCEPT !.insts = Append(@,
                                         Inst(ldOf(x), "load", <<Reg(slot)>>, <<>>, 0))]
                                 ELSE F1.blk[x]]]
                 IN RewriteUsers([S EXCEPT !.F = F2, !.nid = S.nid + Len(qs)],
                                 v, slot)
            ELSE LET ld == Inst(S.nid, "load", <<Reg(slot)>>, <<>>, 0)
                     F1 == IF IsTermPos(Fn, p)
                           THEN [Fn EXCEPT !.blk[b].term.a = Subst(@, Reg(v), Reg(S.nid)),
                                           !.blk[b].insts = Append(@, ld)]
                           ELSE [Fn EXCEPT !.blk[b].insts =
                                   InsertAt([@ EXCEPT ![p[2]].a =
                                               Subst(@, Reg(v), Reg(S.nid))],
                                            p[2], ld)]
                 IN RewriteUsers([S EXCEPT !.F = F1, !.nid = S.nid + 1], v, slot)

\* The call passes the entry's terminator as the second argument, which is
\* bool VolatileLoads (true: the loads are volatile, which no run observes);
\* Instruction *AllocaPoint keeps its default, null, so the slot is created
\* at the front of the entry Block.

\* Variant of DemoteRegToStack: the slot is created before the entry's
\* terminator.
DemoteRegToStack_AtTerminator(S, v) ==
    IF UsesOf(S.F, v) = {} THEN [S EXCEPT !.F = EraseInst(S.F, v)]
    ELSE
      LET entry == S.F.order[1]
          slot  == S.nid
          F1 == AppendInst(S.F, entry, Inst(slot, "alloca", <<>>, <<>>, 0))
          S2 == RewriteUsers([S EXCEPT !.F = F1, !.nid = S.nid + 1], v, slot)
          p  == PosOf(S2.F, v)
          \* the store goes right after the definition
          at == AfterPhis(S2.F, p[1], p[2])
          st == Inst(S2.nid, "store", <<Reg(v), Reg(slot)>>, <<>>, 0)
      IN [S2 EXCEPT !.F.blk[p[1]].insts = InsertAt(@, at, st),
                    !.nid = S2.nid + 1]


DemoteRegToStack(S, v) ==
    IF UsesOf(S.F, v) = {} THEN [S EXCEPT !.F = EraseInst(S.F, v)]
    ELSE
      LET entry == S.F.order[1]
          slot  == S.nid
          \* AllocaPoint is null: new AllocaInst(.., &F->getEntryBlock().front())
          F1 == [S.F EXCEPT !.blk[entry].insts =
                    InsertAt(@, 1, Inst(slot, "alloca", <<>>, <<>>, 0))]
          S2 == RewriteUsers([S EXCEPT !.F = F1, !.nid = S.nid + 1], v, slot)
          p  == PosOf(S2.F, v)
          \* the store goes right after the definition
          at == AfterPhis(S2.F, p[1], p[2])
          st == Inst(S2.nid, "store", <<Reg(v), Reg(slot)>>, <<>>, 0)
      IN [S2 EXCEPT !.F.blk[p[1]].insts = InsertAt(@, at, st),
                    !.nid = S2.nid + 1]

\* ------------------------- llvm::DemotePHIToStack (called at lines 98-100)
\* Here the second argument is AllocaPoint: the slot is created before the
\* entry's terminator.
ReplaceAllUsesWith(Fn, v, w) ==
    [Fn EXCEPT !.blk =
        [x \in DOMAIN Fn.blk |->
            [insts |-> [j \in 1 .. Len(Fn.blk[x].insts) |->
                          [Fn.blk[x].insts[j] EXCEPT !.a = Subst(@, Reg(v), Reg(w))]],
             term  |-> [Fn.blk[x].term EXCEPT !.a = Subst(@, Reg(v), Reg(w))]]]]

RECURSIVE StoreIncoming(_, _, _, _)
\* "Iterate over each operand inserting a store in each predecessor."
StoreIncoming(S, phi, slot, i) ==
    IF i > Len(phi.a) THEN S
    ELSE StoreIncoming(
           [S EXCEPT !.F = AppendInst(S.F, phi.inc[i],
                              Inst(S.nid, "store", <<phi.a[i], Reg(slot)>>, <<>>, 0)),
                     !.nid = S.nid + 1],
           phi, slot, i + 1)

\* Variant of DemotePHIToStack: the PHI's uses are not replaced and the PHI
\* is not erased.
DemotePHIToStack_KeepPhi(S, v) ==
    IF UsesOf(S.F, v) = {} THEN [S EXCEPT !.F = EraseInst(S.F, v)]
    ELSE
      LET entry == S.F.order[1]
          slot  == S.nid
          F1 == AppendInst(S.F, entry, Inst(slot, "alloca", <<>>, <<>>, 0))
          p0 == PosOf(F1, v)
          phi == F1.blk[p0[1]].insts[p0[2]]
          S2 == StoreIncoming([S EXCEPT !.F = F1, !.nid = S.nid + 1], phi, slot, 1)
          p  == PosOf(S2.F, v)
          at == AfterPhis(S2.F, p[1], p[2])
          ld == Inst(S2.nid, "load", <<Reg(slot)>>, <<>>, 0)
          F3 == [S2.F EXCEPT !.blk[p[1]].insts = InsertAt(@, at, ld)]
      IN [F |-> F3, nid |-> S2.nid + 1, reload |-> (v :> S2.nid) @@ S.reload]

DemotePHIToStack(S, v) ==
    IF UsesOf(S.F, v) = {} THEN [S EXCEPT !.F = EraseInst(S.F, v)]
    ELSE
      LET entry == S.F.order[1]
          slot  == S.nid
          F1 == AppendInst(S.F, entry, Inst(slot, "alloca", <<>>, <<>>, 0))
          p0 == PosOf(F1, v)
          phi == F1.blk[p0[1]].insts[p0[2]]
          S2 == StoreIncoming([S EXCEPT !.F = F1, !.nid = S.nid + 1], phi, slot, 1)
          p  == PosOf(S2.F, v)
          at == AfterPhis(S2.F, p[1], p[2])
          ld == Inst(S2.nid, "load", <<Reg(slot)>>, <<>>, 0)
          F3 == [S2.F EXCEPT !.blk[p[1]].insts = InsertAt(@, at, ld)]
          F4 == EraseInst(ReplaceAllUsesWith(F3, v, S2.nid), v)
      IN [F |-> F4, nid |-> S2.nid + 1, reload |-> (v :> S2.nid) @@ S.reload]

\* ------------------------------------- fixStack: one do/while iteration
RECURSIVE DemoteRegs(_, _, _)
\* for (i = 0; i != tmpReg.size(); ++i) DemoteRegToStack(..)
DemoteRegs(S, ids, i) ==
    IF i > Len(ids) THEN S ELSE DemoteRegs(DemoteRegToStack(S, ids[i]), ids, i + 1)

RECURSIVE DemotePhis(_, _, _)
\* for (i = 0; i != tmpPhi.size(); ++i) DemotePHIToStack(..)
DemotePhis(S, ids, i) ==
    IF i > Len(ids) THEN S ELSE DemotePhis(DemotePHIToStack(S, ids[i]), ids, i + 1)

fixStackIter(S) ==
    LET tmpPhi == ScanPhi(S.F)
        tmpReg == ScanReg(S.F)
    IN DemotePhis(DemoteRegs(S, tmpReg, 1), tmpPhi, 1)

\* One iteration of fixStack's loop; when the scan found nothing the loop
\* exits and flatten returns true (line 283).
FixStack ==
    /\ pc = "fix"
    /\ LET tmpPhi == ScanPhi(F)
           tmpReg == ScanReg(F)
           S == fixStackIter([F |-> F, nid |-> nextId, reload |-> reload])
       IN /\ F' = S.F
          /\ nextId' = S.nid
          /\ reload' = S.reload
          /\ scans' = Append(scans, <<Len(tmpPhi), Len(tmpReg)>>)
          /\ IF Len(tmpReg) # 0 \/ Len(tmpPhi) # 0
             THEN pc' = "fix" /\ result' = result
             ELSE pc' = "done" /\ result' = "true"
    /\ UNCHANGED <<F0, origBB, bi, switchVar, load, tmpBB, run>>

\* ------------------------------------------------------- the interpreter
\* One interpreter executes the original and the flattened Function.  An
\* input of a run is the argument values, the answers of the external
\* oracle (the values of the branch conditions, in call order) and u, the
\* value produced by every read of an undefined register or of a storage
\* cell never written.  A run is cut off when the oracle has no answer left
\* or MaxTrace events were emitted.  The address of an alloca is its id.
\*
\* env: [Fn, args, u, watch (address whose accesses are logged, 0 for none),
\*       phiOf (load id -> id of the PHI it replaced)]
\* st:  [blk, prev, regs, mem, tape, trace, status, ret, sel, philog, reads,
\*       stores, undef]
Eval(env, st, x) ==
    CASE x.t = "c"   -> x.n
      [] x.t = "arg" -> env.args[x.n + 1]
      [] x.t = "v"   -> IF x.n \in DOMAIN st.regs THEN st.regs[x.n] ELSE env.u
      [] OTHER       -> env.u

Defined(st, x) == x.t \in {"c", "arg"} \/ (x.t = "v" /\ x.n \in DOMAIN st.regs)

SetReg(st, id, v) == [st EXCEPT !.regs = (id :> v) @@ @]

ExecInst(env, st, j) ==
    LET a == j.a
        ud(x) == [st EXCEPT !.undef = @ \/ ~Defined(st, x)]
    IN CASE j.op = "op" ->
              SetReg(ud(a[1]), j.id, (Eval(env, st, a[1]) + j.k) % ValMod)
         [] j.op = "phi" ->
              LET ks == {k \in 1 .. Len(j.inc) : j.inc[k] = st.prev}
                  v  == IF ks = {} THEN env.u
                        ELSE Eval(env, st, a[CHOOSE k \in ks : TRUE])
                  s1 == IF ks = {} THEN [st EXCEPT !.undef = TRUE]
                        ELSE ud(a[CHOOSE k \in ks : TRUE])
              IN [SetReg(s1, j.id, v) EXCEPT !.philog = Append(@, <<j.id, v>>)]
         [] j.op = "emit" ->
              IF Len(st.trace) >= MaxTrace THEN [st EXCEPT !.status = "cut"]
              ELSE [ud(a[1]) EXCEPT !.trace = Append(@, <<j.id, Eval(env, st, a[1])>>)]
         [] j.op = "oracle" ->
              IF st.tape = <<>> THEN [st EXCEPT !.status = "cut"]
              ELSE [SetReg(st, j.id, Head(st.tape)) EXCEPT !.tape = Tail(@)]
         [] j.op = "alloca" -> SetReg(st, j.id, j.id)
         [] j.op = "load" ->
              LET addr == Eval(env, st, a[1])
                  has  == Defined(st, a[1]) /\ addr \in DOMAIN st.mem
                  v    == IF has THEN st.mem[addr] ELSE env.u
                  s1   == [SetReg(st, j.id, v) EXCEPT !.undef = @ \/ ~has]
                  s2   == IF addr = env.watch
                          THEN [s1 EXCEPT !.reads = Append(@, <<v, st.stores>>),
                                          !.stores = 0]
                          ELSE s1
              IN IF j.id \in DOMAIN env.phiOf
                 THEN [s2 EXCEPT !.philog = Append(@, <<env.phiOf[j.id], v>>)]
                 ELSE s2
         [] j.op = "store" ->
              LET addr == Eval(env, st, a[2])
                  s1   == [ud(a[1]) EXCEPT !.undef = @ \/ ~Defined(st, a[2])]
              IN [s1 EXCEPT !.mem = (addr :> Eval(env, st, a[1])) @@ @,
                            !.stores = IF addr = env.watch THEN @ + 1 ELSE @]
         [] j.op = "select" ->
              SetReg([ud(a[1]) EXCEPT !.undef = @ \/ ~Defined(st, a[2])
                                                  \/ ~Defined(st, a[3])],
                     j.id,
                     IF Eval(env, st, a[1]) # 0 THEN Eval(env, st, a[2])
                     ELSE Eval(env, st, a[3]))
         [] OTHER -> st

RECURSIVE ExecInsts(_, _, _, _)
ExecInsts(env, st, insts, i) ==
    IF i > Len(insts) \/ st.status # "run" THEN st
    ELSE ExecInsts(env, ExecInst(env, st, insts[i]), insts, i + 1)

GoTo(st, b) == [st EXCEPT !.prev = st.blk, !.blk = b]

ExecTerm(env, st, t) ==
    CASE t.op = "ret" ->
              [st EXCEPT !.status = "ret", !.ret = Eval(env, st, t.a[1]),
                         !.undef = @ \/ ~Defined(st, t.a[1])]
      [] t.op = "br" -> GoTo(st, t.succ[1])
      [] t.op = "condbr" ->
              [GoTo(st, IF Eval(env, st, t.a[1]) # 0 THEN t.succ[1] ELSE t.succ[2])
                 EXCEPT !.undef = @ \/ ~Defined(st, t.a[1])]
      [] t.op = "switch" ->
              LET v   == Eval(env, st, t.a[1])
                  ks  == {k \in 2 .. Len(t.succ) : t.a[k].n = v}
                  to  == IF ks = {} THEN t.succ[1]
                         ELSE t.succ[CHOOSE k \in ks : \A m \in ks : k <= m]
              IN IF to = st.blk
                 THEN [st EXCEPT !.status = "spin", !.sel = Append(@, to)]
                 ELSE [GoTo(st, to) EXCEPT !.sel = Append(@, to),
                                           !.undef = @ \/ ~Defined(st, t.a[1])]
      [] OTHER -> [st EXCEPT !.status = "stuck"]

RECURSIVE ExecBlocks(_, _, _)
ExecBlocks(env, st, fuel) ==
    IF st.status # "run" THEN st
    ELSE IF fuel = 0 THEN [st EXCEPT !.status = "fuel"]
    ELSE LET blk == env.Fn.blk[st.blk]
             s1  == ExecInsts(env, st, blk.insts, 1)
             s2  == IF s1.status = "run" THEN ExecTerm(env, s1, blk.term) ELSE s1
         IN ExecBlocks(env, s2, fuel - 1)

Fuel == 3 * MaxTrace + 4

Execute(Fn, args, tape, u, watch, phiOf) ==
    LET env == [Fn |-> Fn, args |-> args, u |-> u, watch |-> watch, phiOf |-> phiOf]
        st0 == [blk |-> Fn.order[1], prev |-> 0,
                regs |-> <<>>,
                mem |-> <<>>, tape |-> tape, trace |-> <<>>, status |-> "run",
                ret |-> 0, sel |-> <<>>, philog |-> <<>>, reads |-> <<>>,
                stores |-> 0, undef |-> FALSE]
        r   == ExecBlocks(env, st0, Fuel)
    IN [status |-> r.status, ret |-> r.ret, trace |-> r.trace, sel |-> r.sel,
        philog |-> r.philog, reads |-> r.reads, undef |-> r.undef]

\* The load that replaced each PHI, inverted: load id -> PHI id.
PhiOfLoad == [l \in {reload[x] : x \in DOMAIN reload} |->
                 CHOOSE x \in DOMAIN reload : reload[x] = l]

Tapes == UNION {[1 .. n -> {0, 1}] : n \in 0 .. MaxTape}

\* Execute the original and the flattened Function on the same input.
RunBoth ==
    /\ pc = "done"
    /\ result = "true"
    /\ run = NoRun
    /\ \E a0 \in Val, tape \in Tapes :
         LET args  == <<a0>>
             o     == Execute(F0, args, tape, 0, 0, <<>>)
             probe == Execute(F, args, tape, 0, switchVar, PhiOfLoad)
         IN \E u \in (IF probe.undef THEN Val ELSE {0}) :
              run' = [kind |-> "ran", args |-> args, tape |-> tape,
                      orig |-> o,
                      flat |-> Execute(F, args, tape, u, switchVar, PhiOfLoad)]
    /\ UNCHANGED <<F0, F, pc, origBB, bi, result, switchVar, load, tmpBB,
                   nextId, scans, reload>>

Next ==
    \/ SaveBlock
    \/ CheckSize
    \/ EntryPrep
    \/ Dispatcher
    \/ AddCase
    \/ CasesDone
    \/ Rewrite
    \/ RewriteDone
    \/ FixStack
    \/ RunBoth

Spec == Init /\ [][Next]_vars

\* ================================================================ claims
Flattened   == pc = "done" /\ result = "true"
Unsupported == \E b \in DOMAIN F0.blk : F0.blk[b].term.op = "invoke"
Entry0      == F0.order[1]
ToLoop      == Term("br", <<>>, <<loopEntry>>)
Switch      == F.blk[loopEntry].term
Ran         == run.kind = "ran"

\* C1: for every accepted Function and every input, the flattened Function
\* emits the same events in the same order as the original and ends the
\* same way (same Return, same returned value).
C1_Equivalent ==
    Ran => /\ run.flat.trace = run.orig.trace
           /\ run.flat.status = run.orig.status
           /\ run.flat.ret = run.orig.ret

\* C2: flatten returns false exactly when a Block has an invoke terminator or
\* the Function has at most one Block, and then the Function is what it was
\* before the call; nothing is rewritten before the check has passed; in
\* every other case flatten returns true.
C2_RejectionNoOp ==
    /\ (Unsupported \/ Len(F0.order) <= 1) => F = F0 /\ result # "true"
    /\ pc = "save" => F = F0
    /\ pc = "done" => result = (IF Unsupported \/ Len(F0.order) <= 1
                                   THEN "false" ELSE "true")
    /\ pc # "crash"

C2_Witness ==
    /\ pc = "done" /\ result = "false"
    /\ Len(origBB) = 3
    /\ F0.blk[3].term.op = "invoke"

\* C3: after flatten returned true the entry Block ends in a jump to the
\* Dispatch Block, every other Block but the Dispatch Block ends in Return or
\* in a jump to the Dispatch Block, and only the Dispatch Block has a
\* terminator with more than one successor.
C3_Structural ==
    Flattened =>
        /\ F.blk[F.order[1]].term = ToLoop
        /\ \A b \in DOMAIN F.blk \ {F.order[1], loopEntry} :
              F.blk[b].term.op = "ret" \/ F.blk[b].term = ToLoop
        /\ \A b \in DOMAIN F.blk \ {loopEntry} :
              getNumSuccessors(F.blk[b].term) <= 1

C3_Witness ==
    /\ Flattened
    /\ tmpBB # 0
    /\ \E b \in DOMAIN F0.blk \ {Entry0} : F0.blk[b].term.op = "condbr"
    /\ \E b \in DOMAIN F0.blk : F0.blk[b].term.op = "ret"

\* C4: when fixStack's loop has exited the Function has no PHI, no
\* instruction result other than an alloca of the entry Block is used in
\* another Block, and every use comes after its definition.
C4_ExitInvariant ==
    (Flattened /\ run = NoRun) =>
        \A p \in Positions(F) :
            /\ OpAt(F, p) # "phi"
            /\ ~IsTermPos(F, p) =>
                 LET j == F.blk[p[1]].insts[p[2]]
                 IN \A q \in UsesOf(F, j.id) :
                       /\ q[1] = p[1] \/ (j.op = "alloca" /\ p[1] = F.order[1])
                       /\ q[1] = p[1] => p[2] < q[2]

C4_Witness ==
    /\ Flattened /\ run = NoRun
    /\ Len(scans) = 3
    /\ \E j \in Range(F0.blk[Entry0].insts) :
          \E q \in UsesOf(F0, j.id) : q[1] # Entry0

\* C5: once the switch is built every non-entry Block of the input is the
\* destination of exactly one case, the case values are pairwise distinct,
\* every successor of every Jump or Branch of the input has a case, and no
\* lookup during Terminator Rewriting returns null.
C5_CaseTable ==
    /\ pc # "crash"
    /\ (pc \in {"rewrite", "fix"} \/ Flattened) =>
         LET cases == 2 .. Len(Switch.succ)
         IN /\ \A b \in DOMAIN F0.blk \ {Entry0} :
                  Cardinality({k \in cases : Switch.succ[k] = b}) = 1
            /\ \A k, m \in cases : Switch.a[k] = Switch.a[m] => k = m
            /\ \A b \in DOMAIN F0.blk : \A t \in Range(F0.blk[b].term.succ) :
                  \E k \in cases : Switch.succ[k] = t /\ Switch.a[k].t = "c"

C5_Witness ==
    /\ pc = "rewrite" /\ bi > Len(origBB)
    /\ tmpBB # 0
    /\ Len(origBB) = MaxBlocks

\* C6: every iteration of fixStack's loop exits when its scan finds nothing
\* and otherwise strictly lowers 2 * (number of PHIs) + (number of escaping
\* results), without raising the number of values a scan collects: the loop
\* terminates.
Rank(Fn)  == 2 * Len(ScanPhi(Fn)) + Len(ScanReg(Fn))
Found(Fn) == Len(ScanPhi(Fn)) + Len(ScanReg(Fn))

C6_Terminates ==
    [][pc = "fix" =>
          IF Found(F) = 0 THEN pc' = "done"
          ELSE /\ pc' = "fix"
               /\ Rank(F') < Rank(F)
               /\ Found(F') <= Found(F)]_vars

C6_Witness == pc = "done" /\ Len(scans) = 3 /\ scans[2][2] > 0

\* C7: Terminator Rewriting leaves a Return alone, replaces Jump(target) by
\* one store of target's case value into the State Variable and a jump to
\* the Dispatch Block, and replaces Branch(c, t, f) by a select of t's case
\* value when c holds and f's otherwise, one store of it and the jump.
PreTerm(b)  == IF b = tmpBB THEN F0.blk[Entry0].term ELSE F0.blk[b].term
PreCount(b) ==
    IF b = tmpBB THEN (IF Len(F0.blk[Entry0].insts) > 0 THEN 1 ELSE 0)
    ELSE Len(F0.blk[b].insts)
CaseValue(t) == Switch.a[CHOOSE k \in 2 .. Len(Switch.succ) : Switch.succ[k] = t]
StoresToState(b) ==
    Cardinality({i \in 1 .. Len(F.blk[b].insts) :
                    /\ F.blk[b].insts[i].op = "store"
                    /\ F.blk[b].insts[i].a[2] = Reg(switchVar)})

Rewritten(b) ==
    LET t0 == PreTerm(b)
        is == F.blk[b].insts
        n  == Len(is)
    IN CASE t0.op = "ret" ->
              F.blk[b].term = t0 /\ n = PreCount(b) /\ StoresToState(b) = 0
         [] t0.op = "br" ->
              /\ n = PreCount(b) + 1
              /\ is[n].op = "store"
              /\ is[n].a = <<CaseValue(t0.succ[1]), Reg(switchVar)>>
              /\ StoresToState(b) = 1
              /\ F.blk[b].term = ToLoop
         [] t0.op = "condbr" ->
              /\ n = PreCount(b) + 2
              /\ is[n - 1].op = "select"
              /\ is[n - 1].a = <<t0.a[1], CaseValue(t0.succ[1]),
                                 CaseValue(t0.succ[2])>>
              /\ is[n].op = "store"
              /\ is[n].a = <<Reg(is[n - 1].id), Reg(switchVar)>>
              /\ StoresToState(b) = 1
              /\ F.blk[b].term = ToLoop
         [] OTHER -> FALSE

C7_Rewriting ==
    /\ pc = "rewrite" => \A k \in 1 .. (bi - 1) : Rewritten(origBB[k])
    /\ (pc = "fix" /\ scans = <<>>) => \A k \in 1 .. Len(origBB) : Rewritten(origBB[k])

C7_Witness ==
    /\ pc = "fix" /\ scans = <<>>
    /\ \E b \in Range(origBB) : PreTerm(b).op = "condbr"
    /\ \E b \in Range(origBB) : PreTerm(b).op = "br"
    /\ \E b \in Range(origBB) : PreTerm(b).op = "ret"

C9_DefaultNeverTaken ==
    Ran => /\ \A i \in 1 .. Len(run.flat.reads) :
                /\ run.flat.reads[i][1] \in 0 .. (Len(origBB) - 1)
                /\ run.flat.reads[i][2] = 1
           /\ Len(run.flat.sel) = Len(run.flat.reads)
           /\ loopEntry \notin Range(run.flat.sel)
           /\ run.flat.status # "spin"

C9_Witness ==
    /\ Ran
    /\ Len(run.flat.reads) >= 3
    /\ run.flat.reads[3][1] = MaxBlocks - 2

\* C10: the Block selected by the first dispatch is the split-off Block when
\* the entry ended in a Branch and the target of the entry's Jump otherwise;
\* when the entry ended in Return the flattened Function returns without
\* executing another Block.
C10_FirstDispatch ==
    Ran =>
      LET t == F0.blk[Entry0].term
      IN CASE t.op = "condbr" ->
                tmpBB # 0 /\ run.flat.sel # <<>> /\ run.flat.sel[1] = tmpBB
           [] t.op = "br" ->
                run.flat.sel # <<>> /\ run.flat.sel[1] = t.succ[1]
           [] OTHER ->
                run.flat.sel = <<>> /\ run.flat.status = "ret"

====
